---- MODULE Spec2Model ----
(***************************************************************************)
(* A model of raycrypt's ChaCha20 / ChaCha20-Poly1305 / XChaCha20-Poly1305 *)
(* (src/src/chacha.rs) and X25519 (src/src/ecc/x25519.rs).                 *)
(*                                                                         *)
(* Bytes are naturals 0..255 and byte strings are sequences of bytes.  A   *)
(* u32 is kept as a pair <<hi, lo>> of 16-bit halves, so that wrapping     *)
(* addition, xor and rotation are computed at their 32-bit width.          *)
(***************************************************************************)
EXTENDS Integers, Sequences, FiniteSets, TLC

\* ------------------------------------------------------------- u8 / u32

RECURSIVE XorBits(_, _, _)
\* bitwise exclusive or of the n low bits of a and b
XorBits(a, b, n) ==
    IF n = 0 THEN 0
    ELSE ((a + b) % 2) + 2 * XorBits(a \div 2, b \div 2, n - 1)

\* u8 ^ u8, tabulated once
XorTab == [a \in 0..255 |-> [b \in 0..255 |-> XorBits(a, b, 8)]]

Xor8(a, b) == XorTab[a][b]

Xor16(a, b) == 256 * XorTab[a \div 256][b \div 256] + XorTab[a % 256][b % 256]

\* u32 from two 16-bit halves
W(hi, lo) == <<hi, lo>>

\* u32::wrapping_add
wrapping_add(x, y) ==
    LET lo == x[2] + y[2]
        hi == x[1] + y[1] + (lo \div 65536)
    IN  W(hi % 65536, lo % 65536)

\* u32 ^ u32
xor32(x, y) == W(Xor16(x[1], y[1]), Xor16(x[2], y[2]))

Pow2(k) == 2 ^ k

\* u32::rotate_left(k), 0 < k <= 16
rotate_left(x, k) ==
    IF k = 16 THEN W(x[2], x[1])
    ELSE W(((x[1] * Pow2(k)) % 65536) + (x[2] \div Pow2(16 - k)),
           ((x[2] * Pow2(k)) % 65536) + (x[1] \div Pow2(16 - k)))

\* u32::from_le_bytes on the first four bytes of the slice x; x[3] out of
\* range panics in the source, so callers guard Len(x) >= 4.
from_le_bytes(x) == W(x[4] * 256 + x[3], x[2] * 256 + x[1])

\* u32::to_le_bytes
to_le_bytes(w) == <<w[2] % 256, w[2] \div 256, w[1] % 256, w[1] \div 256>>

\* the slice x[a..b] of the source (0-based, end exclusive)
Slice(x, a, b) == SubSeq(x, a + 1, b)

\* ------------------------------------------------------------- ChaCha20

ROUNDS == 20

\* `block[x] = block[x].wrapping_add(block[y])`
qr_add(block, x, y) == [block EXCEPT ![x + 1] = wrapping_add(@, block[y + 1])]

\* `block[x] ^= block[y]; block[x] = block[x].rotate_left(k)`
qr_xor_rotl(block, x, y, k) == [block EXCEPT ![x + 1] = rotate_left(xor32(@, block[y + 1]), k)]

quarter_round(a, b, c, d, block) ==
    qr_xor_rotl(qr_add(
    qr_xor_rotl(qr_add(
    qr_xor_rotl(qr_add(
    qr_xor_rotl(qr_add(block, a, b), d, a, 16),
                       c, d), b, c, 12),
                       a, b), d, a, 8),
                       c, d), b, c, 7)

double_round(block) ==
    quarter_round(3, 4, 9, 14,
    quarter_round(2, 7, 8, 13,
    quarter_round(1, 6, 11, 12,
    quarter_round(0, 5, 10, 15,
    quarter_round(3, 7, 11, 15,
    quarter_round(2, 6, 10, 14,
    quarter_round(1, 5, 9, 13,
    quarter_round(0, 4, 8, 12, block))))))))

RECURSIVE Rounds(_, _)
\* `for _ in 0..(ROUNDS / 2) { state = double_round(state) }`
\* (each double round is computed before the next one starts)
Rounds(block, n) ==
    IF n = 0 THEN block
    ELSE LET next == double_round(block)
         IN  IF DOMAIN next = 1..16 THEN Rounds(next, n - 1) ELSE next

\* "expand 32-byte k"
Sigma == << W(24944, 30821), W(13088, 25710), W(31074, 11570), W(27424, 25972) >>

RECURSIVE Flatten(_)
\* concatenation of a sequence of byte strings
Flatten(ss) == IF ss = <<>> THEN <<>> ELSE Head(ss) \o Flatten(Tail(ss))

\* ChaCha20::keystream for a key of at least 32 and a nonce of at least 12 bytes
keystream(key, nonce, counter) ==
    LET state == Sigma \o
                 [i \in 1..8 |-> from_le_bytes(Slice(key, 4 * (i - 1), Len(key)))] \o
                 << counter >> \o
                 [i \in 1..3 |-> from_le_bytes(Slice(nonce, 4 * (i - 1), 4 * i))]
        working_state == Rounds(state, ROUNDS \div 2)
        sum == [i \in 1..16 |-> wrapping_add(state[i], working_state[i])]
    IN  Flatten([i \in 1..16 |-> to_le_bytes(sum[i])])

\* u32 + u32 leaves the 32-bit range (`counter + index as u32`)
add_overflows(x, y) == x[1] + y[1] + ((x[2] + y[2]) \div 65536) >= 65536

\* the key or nonce slices taken by keystream are out of range: a panic
keystream_panics(key, nonce) == Len(key) < 32 \/ Len(nonce) < 12

\* plaintext.chunks(64): the number of chunks
NumChunks(text) == (Len(text) + 63) \div 64

\* the index-th chunk (index from 0) of plaintext.chunks(64)
Chunk(text, index) ==
    Slice(text, 64 * index, IF 64 * (index + 1) < Len(text) THEN 64 * (index + 1) ELSE Len(text))

\* `for (key, chunk) in block.iter().zip(keystream) { push(chunk ^ key) }`
XorZip(block, ks) == [i \in 1..Len(block) |-> Xor8(ks[i], block[i])]

\* the counter handed to keystream for chunk `index`: counter + index as u32
BlockCounter(counter, index) == wrapping_add(counter, W(0, index))

RECURSIVE EncryptFrom(_, _, _, _, _, _)
\* ChaCha20::encrypt from chunk `index` on.  The result is the record
\* [panic, out, counters]: with overflow checks on, an overflowing
\* `counter + index` panics; with them off it wraps.
EncryptFrom(key, plaintext, nonce, counter, index, checks) ==
    IF index >= NumChunks(plaintext)
    THEN [panic |-> FALSE, out |-> <<>>, counters |-> <<>>]
    ELSE IF (checks /\ add_overflows(counter, W(0, index))) \/ keystream_panics(key, nonce)
    THEN [panic |-> TRUE, out |-> <<>>, counters |-> <<>>]
    ELSE LET ctr  == BlockCounter(counter, index)
             ks   == keystream(key, nonce, ctr)
             rest == EncryptFrom(key, plaintext, nonce, counter, index + 1, checks)
         IN  [panic    |-> rest.panic,
              out      |-> IF rest.panic THEN <<>> ELSE XorZip(Chunk(plaintext, index), ks) \o rest.out,
              counters |-> <<ctr>> \o rest.counters]

\* ChaCha20::encrypt
ChaCha20_encrypt(key, plaintext, nonce, counter, checks) ==
    EncryptFrom(key, plaintext, nonce, counter, 0, checks)

\* hchacha20 for a key of at least 32 and a nonce of at least 16 bytes
hchacha20(key, nonce) ==
    LET state == Sigma \o
                 [i \in 1..8 |-> from_le_bytes(Slice(key, 4 * (i - 1), Len(key)))] \o
                 [i \in 1..4 |-> from_le_bytes(Slice(nonce, 4 * (i - 1), Len(nonce)))]
        final == Rounds(state, ROUNDS \div 2)
    IN  Flatten([i \in 1..8 |-> to_le_bytes(final[IF i <= 4 THEN i ELSE i + 8])])

\* the key or nonce slices taken by hchacha20 / XChaCha20Poly1305::key are
\* out of range: a panic
xkey_panics(key, nonce) == Len(key) < 32 \/ Len(nonce) < 24

\* ------------------------------------------------------------- Poly1305
\* crate::poly1305 is not among the sources; it is modelled as the
\* one-time MAC of RFC 8439 behind the interface chacha.rs uses:
\* new(key), update(data, pad), tag(), verify(tag).

Zeros(n) == [i \in 1..n |-> 0]

RECURSIVE CarryChain(_, _, _)
\* propagate carries through the limbs x from limb j on, base 256; the
\* last element of the result is the carry out
CarryChain(x, j, u) ==
    IF j > Len(x) THEN <<u>>
    ELSE <<(u + x[j]) % 256>> \o CarryChain(x, j + 1, (u + x[j]) \div 256)

\* h + c over 17 byte limbs, the carry out of the top limb dropped
Add1305(h, c) == SubSeq(CarryChain([j \in 1..17 |-> h[j] + c[j]], 1, 0), 1, 17)

\* r with the clamp of RFC 8439 2.5
ClampR(k) ==
    [j \in 1..17 |->
        IF j = 17 THEN 0
        ELSE IF j \in {4, 8, 12, 16} THEN k[j] % 16
        ELSE IF j \in {5, 9, 13} THEN k[j] - (k[j] % 4)
        ELSE k[j]]

\* h * r mod 2^130 - 5, limbs not yet carried
MulR(h, r) ==
    LET term(i, j) == h[j] * (IF j <= i THEN r[i - j + 1] ELSE 320 * r[i + 17 - j + 1])
        RECURSIVE sum(_, _)
        sum(i, j) == IF j > 17 THEN 0 ELSE term(i, j) + sum(i, j + 1)
    IN  [i \in 1..17 |-> sum(i, 1)]

\* partial reduction back to byte limbs with a small top limb
Squeeze(x) ==
    LET p1 == CarryChain(SubSeq(x, 1, 16), 1, 0)
        u1 == p1[17] + x[17]
        p2 == CarryChain(SubSeq(p1, 1, 16), 1, 5 * (u1 \div 4))
    IN  SubSeq(p2, 1, 16) \o <<p2[17] + (u1 % 4)>>

\* one block of at most 16 bytes absorbed into the accumulator
Absorb(h, r, blk) ==
    LET c == blk \o <<1>> \o Zeros(16 - Len(blk))
    IN  Squeeze(MulR(Add1305(h, c), r))

RECURSIVE AbsorbAll(_, _, _)
\* the message m absorbed block by block
\* (each accumulator is computed before the next block is taken up)
AbsorbAll(h, r, m) ==
    IF m = <<>> THEN h
    ELSE IF Len(m) <= 16 THEN Absorb(h, r, m)
    ELSE LET h1 == Absorb(h, r, SubSeq(m, 1, 16))
         IN  IF Len(h1) = 17 THEN AbsorbAll(h1, r, SubSeq(m, 17, Len(m))) ELSE h1

MinusP == <<5>> \o Zeros(15) \o <<252>>

\* the 16-byte tag of message m under the 32-byte one-time key k
Poly1305Mac(m, k) ==
    LET h == AbsorbAll(Zeros(17), ClampR(k), m)
        g == Add1305(h, MinusP)
        f == IF g[17] >= 128 THEN h ELSE g
    IN  SubSeq(Add1305(f, SubSeq(k, 17, 32) \o <<0>>), 1, 16)

\* Poly1305::new
Poly1305_new(key) == [key |-> key, msg |-> <<>>, updates |-> <<>>]

\* bytes of zero padding after data when pad is set
PadLen(data) == (16 - (Len(data) % 16)) % 16

\* Poly1305::update(data, pad)
Poly1305_update(p, data, pad) ==
    [p EXCEPT !.msg = @ \o data \o (IF pad THEN Zeros(PadLen(data)) ELSE <<>>),
              !.updates = Append(@, <<data, pad>>)]

\* Poly1305::tag
Poly1305_tag(p) == Poly1305Mac(p.msg, p.key)

\* Poly1305::verify
Poly1305_verify(p, tag) == Poly1305_tag(p) = tag

\* (len as u64).to_le_bytes() for lengths below 2^16
u64_to_le_bytes(n) == <<n % 256, n \div 256>> \o Zeros(6)

\* ------------------------------------------------------ FieldElement
\* crate::ecc::field is not among the sources; FieldElement is modelled as
\* the integers mod 2^255 - 19 behind the interface x25519.rs uses.  An
\* element is 20 limbs of 13 bits, least significant first.

Radix == 8192
Limbs == 20

\* 2^260 mod (2^255 - 19)
FoldLimbs == 608

RECURSIVE FeCarryFrom(_, _, _)
\* carries propagated from limb j on; the last element is the carry out
FeCarryFrom(x, j, c) ==
    IF j > Len(x) THEN <<c>>
    ELSE LET t == x[j] + c
         IN  <<t % Radix>> \o FeCarryFrom(x, j + 1, t \div Radix)

\* the carry out of the top limb folded back into the bottom limb
FeFold(xc) == [SubSeq(xc, 1, Limbs) EXCEPT ![1] = @ + FoldLimbs * xc[Limbs + 1]]

\* 20 limbs below 2^31 brought back to 20 limbs of 13 bits
FeReduce(x) ==
    SubSeq(FeCarryFrom(FeFold(FeCarryFrom(FeFold(FeCarryFrom(x, 1, 0)), 1, 0)), 1, 0), 1, Limbs)

\* a sequence given limb by limb, as the tuple of its limbs
Tuple(f, n) == SubSeq(f, 1, n)

FeZero == Tuple([i \in 1..Limbs |-> 0], Limbs)
FeOne == Tuple([i \in 1..Limbs |-> IF i = 1 THEN 1 ELSE 0], Limbs)

\* 4 * (2^255 - 19), limb by limb, each limb above any 13-bit limb
FourP == Tuple([i \in 1..Limbs |-> IF i = 1 THEN 4 * Radix - 76
                                   ELSE IF i = Limbs THEN 4 * 256 - 4 ELSE 4 * Radix - 4], Limbs)

FeAdd(x, y) == FeReduce(Tuple([i \in 1..Limbs |-> x[i] + y[i]], Limbs))

FeSub(x, y) == FeReduce(Tuple([i \in 1..Limbs |-> x[i] + 2 * FourP[i] - y[i]], Limbs))

\* the coefficient of Radix^k in x * y (k from 0)
FeCoeff(x, y, k) ==
    LET lo == IF k < Limbs THEN 0 ELSE k - Limbs + 1
        hi == IF k < Limbs THEN k ELSE Limbs - 1
        RECURSIVE sum(_)
        sum(i) == IF i > hi THEN 0 ELSE x[i + 1] * y[k - i + 1] + sum(i + 1)
    IN  sum(lo)

\* the 40 limbs of 13 bits of the product x * y
FeProduct(x, y) == FeCarryFrom(Tuple([k \in 1..(2 * Limbs - 1) |-> FeCoeff(x, y, k - 1)], 2 * Limbs - 1), 1, 0)

\* the limbs at Radix^20 and above folded onto the low limbs
FeFoldHigh(w) == Tuple([i \in 1..Limbs |-> w[i] + FoldLimbs * w[i + Limbs]], Limbs)

FeMul(x, y) == FeReduce(FeFoldHigh(FeProduct(x, y)))

FeSquare(x) == FeMul(x, x)

\* FieldElement::mul32 for a factor below 2^17
FeMul32(x, k) == FeReduce(Tuple([i \in 1..Limbs |-> x[i] * k], Limbs))

\* bit k (from 0) of a little-endian byte string
ByteBit(bytes, k) == (bytes[(k \div 8) + 1] \div Pow2(k % 8)) % 2

\* bit k (from 0) of an element
LimbBit(x, k) == (x[(k \div 13) + 1] \div Pow2(k % 13)) % 2

RECURSIVE BytesBits(_, _, _, _)
\* the number whose bits are the n bits from bit `from` on of a byte string
\* read as a number below 2^255, the lowest weighing w
BytesBits(bytes, from, n, w) ==
    IF n = 0 THEN 0
    ELSE w * (IF from >= 255 THEN 0 ELSE ByteBit(bytes, from)) + BytesBits(bytes, from + 1, n - 1, 2 * w)

RECURSIVE LimbBits(_, _, _, _)
\* the number whose bits are the n bits from bit `from` on of an element
LimbBits(x, from, n, w) ==
    IF n = 0 THEN 0 ELSE w * LimbBit(x, from) + LimbBits(x, from + 1, n - 1, 2 * w)

\* FieldElement::from_bytes: 32 little-endian bytes, the top bit masked off
FeFromBytes(bytes) == Tuple([i \in 1..Limbs |-> BytesBits(bytes, 13 * (i - 1), 13, 1)], Limbs)

\* the bits at 2^255 and above folded onto the low bits
FeFold255(x) ==
    SubSeq(FeCarryFrom([x EXCEPT ![1] = @ + 19 * (x[Limbs] \div 256), ![Limbs] = @ % 256], 1, 0), 1, Limbs)

\* the representative below 2^255 - 19 of an element below 2^255
FeCanonical(x) ==
    LET y == SubSeq(FeCarryFrom([x EXCEPT ![1] = @ + 19], 1, 0), 1, Limbs)
    IN  IF y[Limbs] >= 256 THEN [y EXCEPT ![Limbs] = @ % 256] ELSE x

\* FieldElement::to_bytes
FeToBytes(x) ==
    LET c == FeCanonical(FeFold255(FeFold255(FeFold255(x))))
    IN  Tuple([i \in 1..32 |-> LimbBits(c, 8 * (i - 1), 8, 1)], 32)

\* one step of z^(2^255 - 21) by squaring and multiplying: the exponent's
\* bits are all set but bits 2 and 4
FePowStep(z, acc, k) == IF k \in {2, 4} THEN FeSquare(acc) ELSE FeMul(FeSquare(acc), z)

RECURSIVE FePowP2(_, _, _, _)
\* the steps for the exponent bits k down to stop, the range halved so that
\* the evaluation stays shallow
FePowP2(z, acc, k, stop) ==
    IF k < stop THEN acc
    ELSE IF k = stop THEN FePowStep(z, acc, k)
    ELSE LET mid == (k + stop + 1) \div 2
             half == FePowP2(z, acc, k, mid)
         IN  IF Len(half) = Limbs THEN FePowP2(z, half, mid - 1, stop) ELSE half

\* FieldElement::invert: z^(p - 2)
FeInvert(z) == FePowP2(z, FeOne, 254, 0)

\* FieldElement::swap: the two elements exchanged when swap is 1
FeSwap(pair, swap) == IF swap = 1 THEN <<pair[2], pair[1]>> ELSE pair

\* ------------------------------------------------------------ X25519
\* A call of scalarmult is a frame: its arguments, its locals and its
\* position (pc, the source line about to run).  What a frame holds in t
\* when the call has ended is what the call leaves behind in memory.

BASE == <<9>> \o Zeros(31)

A24 == 121666

\* for pos in (0..255).rev()
LadderBits == 255

NoValue == [kind |-> "None", val |-> <<>>]

IdleSm ==
    [pc |-> "idle", caller |-> "none", party |-> 0, n |-> <<>>, p |-> <<>>,
     t |-> <<>>, t_zeroized |-> 0,
     x1 |-> <<>>, x2 |-> <<>>, z2 |-> <<>>, x3 |-> <<>>, z3 |-> <<>>,
     swap |-> 0, pos |-> 0, output |-> <<>>, result |-> NoValue]

\* scalarmult(n, p) entered on behalf of caller
ScalarmultFrame(caller, party, n, p) ==
    [IdleSm EXCEPT !.pc = "s11", !.caller = caller, !.party = party, !.n = n, !.p = p]

\* let mut t = [0u8; 32]
sm_let_t(f) == [f EXCEPT !.t = Zeros(32), !.pc = "s13"]

\* for i in 0..32 { t[i] = n[i] }: the index n[i] panics at i = n.len() when
\* n is shorter than 32 bytes, with the bytes before i already copied
sm_copy(f) ==
    IF Len(f.n) < 32
    THEN [f EXCEPT !.t = f.n \o Zeros(32 - Len(f.n)), !.pc = "done",
                   !.result = [kind |-> "Panic", val |-> <<>>]]
    ELSE [f EXCEPT !.t = SubSeq(f.n, 1, 32), !.pc = "s17"]

\* t[0] &= 248; t[31] &= 127; t[31] |= 64
clamp(t) ==
    [t EXCEPT ![1] = @ - (@ % 8),
              ![32] = IF (@ % 128) >= 64 THEN @ % 128 ELSE (@ % 128) + 64]

sm_clamp(f) == [f EXCEPT !.t = clamp(f.t), !.pc = "s21"]

\* x1 = from_bytes(p), x2 = 1, z2 = 0, x3 = x1, z3 = 1, swap = 0
sm_init(f) ==
    [f EXCEPT !.x1 = FeFromBytes(f.p), !.x2 = FeOne, !.z2 = FeZero,
              !.x3 = FeFromBytes(f.p), !.z3 = FeOne, !.swap = 0,
              !.pos = LadderBits - 1, !.pc = "s28"]

\* (t[pos / 8] >> (pos & 7)) & 1
ladder_bit(t, pos) == (t[(pos \div 8) + 1] \div Pow2(pos % 8)) % 2

\* z3 = &z3 * &x1 left out
ladder_z3_without_x1(da, cb, x1) == FeSquare(FeSub(da, cb))

\* z3 = &da - &cb; z3 = z3.square(); z3 = &z3 * &x1
ladder_z3(da, cb, x1) == FeMul(FeSquare(FeSub(da, cb)), x1)

\* the differential addition and doubling of one iteration: the new
\* <<x2, z2, x3, z3>>
ladder_body(x1, x2, z2, x3, z3) ==
    LET a == FeAdd(x2, z2)
        b == FeSub(x2, z2)
        aa == FeSquare(a)
        bb == FeSquare(b)
        e == FeSub(aa, bb)
        da == FeMul(FeSub(x3, z3), a)
        cb == FeMul(FeAdd(x3, z3), b)
    IN  <<FeMul(aa, bb),
          FeMul(FeAdd(FeMul32(e, A24), bb), e),
          FeSquare(FeAdd(da, cb)),
          ladder_z3(da, cb, x1)>>

\* the frame after an iteration that computed r
ladder_store(f, bit, r) ==
    [f EXCEPT !.x2 = r[1], !.z2 = r[2], !.x3 = r[3], !.z3 = r[4],
              !.swap = bit,
              !.pos = IF f.pos = 0 THEN 0 ELSE f.pos - 1,
              !.pc = IF f.pos = 0 THEN "s55" ELSE "s28"]

\* the iteration on the swapped pairs xs and zs
ladder_swapped(f, bit, xs, zs) ==
    ladder_store(f, bit, ladder_body(f.x1, xs[1], zs[1], xs[2], zs[2]))

\* swap ^= bit; x2.swap(&mut x3, swap); z2.swap(&mut z3, swap); swap = bit
ladder_at(f, bit) ==
    ladder_swapped(f, bit, FeSwap(<<f.x2, f.x3>>, (f.swap + bit) % 2),
                           FeSwap(<<f.z2, f.z3>>, (f.swap + bit) % 2))

\* one iteration of for pos in (0..255).rev()
sm_ladder(f) == ladder_at(f, ladder_bit(f.t, f.pos))

\* x2.swap(&mut x3, swap); z2.swap(&mut z3, swap) after the loop
sm_final_swap(f) ==
    [f EXCEPT !.x2 = FeSwap(<<f.x2, f.x3>>, f.swap)[1],
              !.x3 = FeSwap(<<f.x2, f.x3>>, f.swap)[2],
              !.z2 = FeSwap(<<f.z2, f.z3>>, f.swap)[1],
              !.z3 = FeSwap(<<f.z2, f.z3>>, f.swap)[2],
              !.pc = "s58"]

\* let output = (z2.invert() * x2).to_bytes()
sm_output(f) ==
    [f EXCEPT !.output = FeToBytes(FeMul(FeInvert(f.z2), f.x2)), !.pc = "s60"]

\* t.zeroize()
sm_zeroize(f) ==
    [f EXCEPT !.t = Zeros(32), !.t_zeroized = @ + 1, !.pc = "s62"]

\* output
sm_return(f) == [f EXCEPT !.result = [kind |-> "Ok", val |-> f.output], !.pc = "done"]

\* a PrivateKey: not constructed, rejected by new, live, or dropped
NoKey == [state |-> "none", key |-> <<>>, zeroized |-> 0]

\* PrivateKey::new
PrivateKey_new(key) ==
    IF Len(key) # 32
    THEN [state |-> "rejected", key |-> <<>>, zeroized |-> 0]
    ELSE [state |-> "live", key |-> key, zeroized |-> 0]

\* ZeroizeOnDrop: the buffer is zeroized as the key is dropped
PrivateKey_drop(k) == [k EXCEPT !.state = "dropped", !.key = Zeros(32), !.zeroized = @ + 1]

\* ------------------------------------------------- the AEAD composers
\* A call of encrypt or decrypt on a ChaCha20Poly1305 or XChaCha20Poly1305
\* object is a frame: its arguments, its locals and its position (pc, the
\* source line about to run).  Each statement is a function from frames
\* to frames.

VARIABLES
    obj,              \* the composer object constructed last: [kind, key]
    frame,            \* the call in progress, or the idle frame
    prev,             \* the last completed encrypt call of obj, if any
    overflow_checks,  \* the build's overflow checks (debug: on, release: off)
    privs,            \* the PrivateKey of each party
    sm,               \* the scalarmult call in progress, or the idle frame
    outs              \* what each party's public_key and exchange returned

aead_vars == <<obj, frame, prev, overflow_checks>>
x_vars == <<privs, sm, outs>>
vars == <<obj, frame, prev, overflow_checks, privs, sm, outs>>

Parties == {1, 2}
Other(i) == 3 - i

NoPrivs == [i \in Parties |-> NoKey]
NoOuts == [pub |-> [i \in Parties |-> <<>>], shared |-> [i \in Parties |-> <<>>]]

CCP == "ChaCha20Poly1305"
XCCP == "XChaCha20Poly1305"

NoObj == [kind |-> "none", key |-> <<>>]
NoPoly == [key |-> <<>>, msg |-> <<>>, updates |-> <<>>]
NoResult == [kind |-> "None", val |-> <<>>, msg |-> ""]
Ok(v) == [kind |-> "Ok", val |-> v, msg |-> ""]
Err(m) == [kind |-> "Err", val |-> <<>>, msg |-> m]
Panicked == [kind |-> "Panic", val |-> <<>>, msg |-> ""]
NoPrev == [set |-> FALSE, text |-> <<>>, nonce |-> <<>>, aead |-> <<>>,
           counter |-> W(0, 0), out |-> <<>>]

Zero32 == W(0, 0)

IdleFrame ==
    [pc |-> "idle", kind |-> "none", op |-> "none",
     key |-> <<>>, text |-> <<>>, nonce |-> <<>>, aead |-> <<>>, counter |-> Zero32,
     subkey |-> <<>>, chacha_nonce |-> <<>>,
     ciphertext |-> <<>>, tag |-> <<>>, otk |-> <<>>, poly1305 |-> NoPoly,
     plaintext |-> <<>>, ks |-> <<>>, xored |-> FALSE, verified |-> "no",
     inner |-> NoResult, result |-> NoResult]

\* the frame of obj.op(text, nonce, aead, counter) at its first statement
CallFrame(o, op, text, nonce, aead, counter) ==
    [IdleFrame EXCEPT
        !.kind = o.kind, !.op = op, !.key = o.key,
        !.text = text, !.nonce = nonce, !.aead = aead, !.counter = counter,
        !.subkey = IF o.kind = CCP THEN o.key ELSE <<>>,
        !.chacha_nonce = IF o.kind = CCP THEN nonce ELSE <<>>,
        !.pc = IF o.kind = XCCP THEN (IF op = "encrypt" THEN "x237" ELSE "x253")
               ELSE IF op = "encrypt" THEN "e126" ELSE "d151"]

\* a panic unwinds the whole call
Panic(f) == [f EXCEPT !.pc = "done", !.inner = Panicked, !.result = Panicked]

\* ChaCha20Poly1305::encrypt / decrypt returns r: to the caller, or to the
\* XChaCha20Poly1305 method that delegated
Return(f, r) ==
    IF f.kind = XCCP
    THEN [f EXCEPT !.inner = r, !.pc = IF f.op = "encrypt" THEN "x243" ELSE "x259"]
    ELSE [f EXCEPT !.inner = r, !.result = r, !.pc = "done"]

\* XChaCha20Poly1305::key with the 8 nonce bytes copied to the front of
\* chacha_nonce instead of behind its 4 zero bytes
XChaCha20Poly1305_key_front(key, nonce) ==
    [subkey |-> hchacha20(key, Slice(nonce, 0, 16)),
     chacha_nonce |-> Slice(nonce, 16, 24) \o Zeros(4)]

\* XChaCha20Poly1305::key
XChaCha20Poly1305_key(key, nonce) ==
    [subkey |-> hchacha20(key, Slice(nonce, 0, 16)),
     chacha_nonce |-> Zeros(4) \o Slice(nonce, 16, 24)]

\* XChaCha20Poly1305::encrypt / decrypt up to the delegated call
x_key(f) ==
    IF xkey_panics(f.key, f.nonce) THEN Panic(f)
    ELSE LET k == XChaCha20Poly1305_key(f.key, f.nonce)
         IN  [f EXCEPT !.subkey = k.subkey, !.chacha_nonce = k.chacha_nonce,
                       !.pc = IF f.op = "encrypt" THEN "e126" ELSE "d151"]

\* XChaCha20Poly1305::encrypt: `chacha.encrypt(..).into()`
x_encrypt_ret(f) == [f EXCEPT !.result = f.inner, !.pc = "done"]

\* XChaCha20Poly1305::decrypt handing on whatever bytes the inner call left,
\* its error dropped
x_decrypt_ret_swallow(f) == [f EXCEPT !.result = Ok(f.inner.val), !.pc = "done"]

\* XChaCha20Poly1305::decrypt: `match output { Ok(o) => Ok(o.into()), Err(e) => Err(e) }`
x_decrypt_ret(f) ==
    [f EXCEPT !.result = IF f.inner.kind = "Ok" THEN Ok(f.inner.val) ELSE f.inner,
              !.pc = "done"]

\* `let otk = &chacha.keystream(nonce, 0)`
otk_step(f, next) ==
    IF keystream_panics(f.subkey, f.chacha_nonce) THEN Panic(f)
    ELSE [f EXCEPT !.otk = keystream(f.subkey, f.chacha_nonce, Zero32),
                   !.ks = Append(@, Zero32), !.pc = next]

\* `let poly1305_key = otk[..32].to_vec(); let mut poly1305 = Poly1305::new(poly1305_key)`
poly_new_step(f, next) ==
    [f EXCEPT !.poly1305 = Poly1305_new(Slice(f.otk, 0, 32)), !.pc = next]

\* `poly1305.update(data, pad)`
update_step(f, data, pad, next) ==
    [f EXCEPT !.poly1305 = Poly1305_update(@, data, pad), !.pc = next]

\* ChaCha20Poly1305::encrypt, statement by statement
enc_otk(f) == otk_step(f, "e129")
enc_poly_new(f) == poly_new_step(f, "e130")
enc_chacha(f) ==
    LET r == ChaCha20_encrypt(f.subkey, f.text, f.chacha_nonce, f.counter, overflow_checks)
    IN  IF r.panic THEN Panic(f)
        ELSE [f EXCEPT !.ciphertext = r.out, !.ks = @ \o r.counters, !.xored = TRUE,
                       !.pc = "e132"]
enc_update_aead(f) == update_step(f, f.aead, TRUE, "e133")
enc_update_ct(f) == update_step(f, f.ciphertext, TRUE, "e138")
enc_update_aead_len(f) == update_step(f, u64_to_le_bytes(Len(f.aead)), FALSE, "e139")
enc_update_ct_len(f) == update_step(f, u64_to_le_bytes(Len(f.ciphertext)), FALSE, "e141")
enc_ret(f) ==
    LET t == Poly1305_tag(f.poly1305)
    IN  Return([f EXCEPT !.tag = t], Ok(f.ciphertext \o t))

\* the least input length ChaCha20Poly1305::decrypt accepts
MinTextLen == 17

\* the tag length
TagLen == 16

\* ChaCha20Poly1305::decrypt, statement by statement
\* the length check against the tag length alone
dec_check_len_16(f) ==
    IF Len(f.text) < TagLen THEN Return(f, Err("Invalid ciphertext"))
    ELSE [f EXCEPT !.pc = "d155"]
dec_check_len(f) ==
    IF Len(f.text) < MinTextLen THEN Return(f, Err("Invalid ciphertext"))
    ELSE [f EXCEPT !.pc = "d155"]
dec_split(f) ==
    IF Len(f.text) < TagLen THEN Panic(f)
    ELSE [f EXCEPT !.ciphertext = Slice(f.text, 0, Len(f.text) - TagLen),
                   !.tag = Slice(f.text, Len(f.text) - TagLen, Len(f.text)),
                   !.pc = "d159"]
dec_otk(f) == otk_step(f, "d162")
dec_poly_new(f) == poly_new_step(f, "d163")
dec_chacha(f) ==
    LET r == ChaCha20_encrypt(f.subkey, f.ciphertext, f.chacha_nonce, f.counter, overflow_checks)
    IN  IF r.panic THEN Panic(f)
        ELSE [f EXCEPT !.plaintext = r.out, !.ks = @ \o r.counters, !.xored = TRUE,
                       !.pc = "d165"]
dec_update_aead(f) == update_step(f, f.aead, TRUE, "d166")
\* the MAC fed the recovered plaintext instead of the received ciphertext
dec_update_plaintext(f) == update_step(f, f.plaintext, TRUE, "d171")
dec_update_ct(f) == update_step(f, f.ciphertext, TRUE, "d171")
dec_update_aead_len(f) == update_step(f, u64_to_le_bytes(Len(f.aead)), FALSE, "d172")
dec_update_ct_len(f) == update_step(f, u64_to_le_bytes(Len(f.ciphertext)), FALSE, "d174")
\* the plaintext returned whatever the tag
dec_verify_skipped(f) == Return(f, Ok(f.plaintext))
dec_verify(f) ==
    IF Poly1305_verify(f.poly1305, f.tag)
    THEN Return([f EXCEPT !.verified = "match"], Ok(f.plaintext))
    ELSE Return([f EXCEPT !.verified = "mismatch"], Err("Invalid MAC"))

\* the statement at f.pc
Step(f) ==
    CASE f.pc \in {"x237", "x253"} -> x_key(f)
      [] f.pc = "x243" -> x_encrypt_ret(f)
      [] f.pc = "x259" -> x_decrypt_ret(f)
      [] f.pc = "e126" -> enc_otk(f)
      [] f.pc = "e129" -> enc_poly_new(f)
      [] f.pc = "e130" -> enc_chacha(f)
      [] f.pc = "e132" -> enc_update_aead(f)
      [] f.pc = "e133" -> enc_update_ct(f)
      [] f.pc = "e138" -> enc_update_aead_len(f)
      [] f.pc = "e139" -> enc_update_ct_len(f)
      [] f.pc = "e141" -> enc_ret(f)
      [] f.pc = "d151" -> dec_check_len(f)
      [] f.pc = "d155" -> dec_split(f)
      [] f.pc = "d159" -> dec_otk(f)
      [] f.pc = "d162" -> dec_poly_new(f)
      [] f.pc = "d163" -> dec_chacha(f)
      [] f.pc = "d165" -> dec_update_aead(f)
      [] f.pc = "d166" -> dec_update_ct(f)
      [] f.pc = "d171" -> dec_update_aead_len(f)
      [] f.pc = "d172" -> dec_update_ct_len(f)
      [] f.pc = "d174" -> dec_verify(f)
      [] OTHER -> f

RECURSIVE Run(_)
\* the call run to its end
Run(f) == IF f.pc \in {"done", "idle"} THEN f ELSE Run(Step(f))

\* ------------------------------------------------------------ inputs

\* the 32-byte key of the tests (0x80..0x9f), and keys of other lengths
Key32 == [i \in 1..32 |-> 127 + i]
Key33 == [i \in 1..33 |-> 127 + i]
Key16 == [i \in 1..16 |-> 127 + i]
Keys == {Key32, Key33, Key16}

\* the nonces of tests::test_chacha_aead (its first 12 bytes) and tests::test_xchacha
Nonce12 == <<7, 0, 0, 0, 64, 65, 66, 67, 68, 69, 70, 71>>
Nonce24 == <<242, 138, 80, 167, 138, 126, 35, 201, 203, 166, 120, 52,
             102, 248, 3, 89, 15, 4, 233, 34, 49, 163, 45, 93>>
NonceFor(kind) == IF kind = XCCP THEN Nonce24 ELSE Nonce12

\* the associated data of the tests, and none
Aad12 == <<80, 81, 82, 83, 192, 193, 194, 195, 196, 197, 198, 199>>
Aads == {Aad12, <<>>}

\* the plaintext of the tests
Sunscreen ==
    <<76, 97, 100, 105, 101, 115, 32, 97, 110, 100, 32, 71, 101, 110, 116, 108,
      101, 109, 101, 110, 32, 111, 102, 32, 116, 104, 101, 32, 99, 108, 97, 115,
      115, 32, 111, 102, 32, 39, 57, 57, 58, 32, 73, 102, 32, 73, 32, 99, 111, 117,
      108, 100, 32, 111, 102, 102, 101, 114, 32, 121, 111, 117, 32, 111, 110, 108,
      121, 32, 111, 110, 101, 32, 116, 105, 112, 32, 102, 111, 114, 32, 116, 104,
      101, 32, 102, 117, 116, 117, 114, 101, 44, 32, 115, 117, 110, 115, 99, 114,
      101, 101, 110, 32, 119, 111, 117, 108, 100, 32, 98, 101, 32, 105, 116, 46>>

\* plaintexts: every prefix up to MaxSmallLen bytes, and one of two chunks
MaxSmallLen == 0
PlainLens == (0..MaxSmallLen) \cup {65}
Plaintexts == {SubSeq(Sunscreen, 1, n) : n \in PlainLens}

\* counters: the one reserved for the MAC key, the usual one, the last one
Counters == {W(0, 0), W(0, 1), W(65535, 65535)}

\* inputs of decrypt that no encrypt produced: every length up to MaxRawLen
MaxRawLen == 17
RawTexts == {SubSeq(Sunscreen, 1, n) : n \in 0..MaxRawLen}

\* text with bit b of its byte i (from 1) flipped
FlipBit(text, i, b) == [text EXCEPT ![i] = Xor8(@, Pow2(b))]

\* the single-bit flips tried on an output: bit 0 of its first byte, bit 7
\* of its last ciphertext byte, bit 0 of its first and bit 7 of its last tag byte
TamperPlaces(out) ==
    {pl \in {<<1, 0>>, <<Len(out) - TagLen, 7>>, <<Len(out) - TagLen + 1, 0>>, <<Len(out), 7>>} :
        pl[1] \in 1..Len(out)}
Tampered(out) == {FlipBit(out, pl[1], pl[2]) : pl \in TamperPlaces(out)}

\* the inputs of a decrypt that follows an encrypt: its output under either
\* associated data, or a tampered output under the associated data it had
DecryptInputs(pv) ==
    {<<pv.out, a>> : a \in Aads} \cup {<<t, pv.aead>> : t \in Tampered(pv.out)}

\* ------------------------------------------------------------- actions

Init ==
    /\ obj = NoObj
    /\ frame = IdleFrame
    /\ prev = NoPrev
    /\ overflow_checks \in BOOLEAN
    /\ privs = NoPrivs
    /\ sm = IdleSm
    /\ outs = NoOuts

\* ChaCha20Poly1305::new / XChaCha20Poly1305::new: any key is taken
New ==
    \E kind \in {CCP, XCCP}, key \in Keys :
        /\ frame.pc = "idle"
        /\ obj' = [kind |-> kind, key |-> key]
        /\ prev' = NoPrev
        /\ UNCHANGED <<frame, overflow_checks, x_vars>>

CallEncrypt ==
    \E p \in Plaintexts, a \in Aads, c \in Counters :
        /\ frame.pc = "idle"
        /\ obj # NoObj
        /\ frame' = CallFrame(obj, "encrypt", p, NonceFor(obj.kind), a, c)
        /\ prev' = NoPrev
        /\ UNCHANGED <<obj, overflow_checks, x_vars>>

\* decrypt of the last output, of a tampered copy of it, or of a raw text
CallDecrypt ==
    \E in \in (IF prev.set THEN DecryptInputs(prev) ELSE RawTexts \X Aads) :
        /\ frame.pc = "idle"
        /\ obj # NoObj
        /\ frame' = CallFrame(obj, "decrypt", in[1], NonceFor(obj.kind), in[2],
                              IF prev.set THEN prev.counter ELSE W(0, 1))
        /\ UNCHANGED <<obj, prev, overflow_checks, x_vars>>

\* one action per statement of the call in progress
XKey ==
    /\ frame.pc \in {"x237", "x253"}
    /\ frame' = x_key(frame)
    /\ UNCHANGED <<obj, prev, overflow_checks, x_vars>>

XEncryptRet ==
    /\ frame.pc \in {"x243"}
    /\ frame' = x_encrypt_ret(frame)
    /\ UNCHANGED <<obj, prev, overflow_checks, x_vars>>

XDecryptRet ==
    /\ frame.pc \in {"x259"}
    /\ frame' = x_decrypt_ret(frame)
    /\ UNCHANGED <<obj, prev, overflow_checks, x_vars>>

EncOtk ==
    /\ frame.pc \in {"e126"}
    /\ frame' = enc_otk(frame)
    /\ UNCHANGED <<obj, prev, overflow_checks, x_vars>>

EncPolyNew ==
    /\ frame.pc \in {"e129"}
    /\ frame' = enc_poly_new(frame)
    /\ UNCHANGED <<obj, prev, overflow_checks, x_vars>>

EncChaCha ==
    /\ frame.pc \in {"e130"}
    /\ frame' = enc_chacha(frame)
    /\ UNCHANGED <<obj, prev, overflow_checks, x_vars>>

EncUpdateAead ==
    /\ frame.pc \in {"e132"}
    /\ frame' = enc_update_aead(frame)
    /\ UNCHANGED <<obj, prev, overflow_checks, x_vars>>

EncUpdateCt ==
    /\ frame.pc \in {"e133"}
    /\ frame' = enc_update_ct(frame)
    /\ UNCHANGED <<obj, prev, overflow_checks, x_vars>>

EncUpdateAeadLen ==
    /\ frame.pc \in {"e138"}
    /\ frame' = enc_update_aead_len(frame)
    /\ UNCHANGED <<obj, prev, overflow_checks, x_vars>>

EncUpdateCtLen ==
    /\ frame.pc \in {"e139"}
    /\ frame' = enc_update_ct_len(frame)
    /\ UNCHANGED <<obj, prev, overflow_checks, x_vars>>

EncRet ==
    /\ frame.pc \in {"e141"}
    /\ frame' = enc_ret(frame)
    /\ UNCHANGED <<obj, prev, overflow_checks, x_vars>>

DecCheckLen ==
    /\ frame.pc \in {"d151"}
    /\ frame' = dec_check_len(frame)
    /\ UNCHANGED <<obj, prev, overflow_checks, x_vars>>

DecSplit ==
    /\ frame.pc \in {"d155"}
    /\ frame' = dec_split(frame)
    /\ UNCHANGED <<obj, prev, overflow_checks, x_vars>>

DecOtk ==
    /\ frame.pc \in {"d159"}
    /\ frame' = dec_otk(frame)
    /\ UNCHANGED <<obj, prev, overflow_checks, x_vars>>

DecPolyNew ==
    /\ frame.pc \in {"d162"}
    /\ frame' = dec_poly_new(frame)
    /\ UNCHANGED <<obj, prev, overflow_checks, x_vars>>

DecChaCha ==
    /\ frame.pc \in {"d163"}
    /\ frame' = dec_chacha(frame)
    /\ UNCHANGED <<obj, prev, overflow_checks, x_vars>>

DecUpdateAead ==
    /\ frame.pc \in {"d165"}
    /\ frame' = dec_update_aead(frame)
    /\ UNCHANGED <<obj, prev, overflow_checks, x_vars>>

DecUpdateCt ==
    /\ frame.pc \in {"d166"}
    /\ frame' = dec_update_ct(frame)
    /\ UNCHANGED <<obj, prev, overflow_checks, x_vars>>

DecUpdateAeadLen ==
    /\ frame.pc \in {"d171"}
    /\ frame' = dec_update_aead_len(frame)
    /\ UNCHANGED <<obj, prev, overflow_checks, x_vars>>

DecUpdateCtLen ==
    /\ frame.pc \in {"d172"}
    /\ frame' = dec_update_ct_len(frame)
    /\ UNCHANGED <<obj, prev, overflow_checks, x_vars>>

DecVerify ==
    /\ frame.pc \in {"d174"}
    /\ frame' = dec_verify(frame)
    /\ UNCHANGED <<obj, prev, overflow_checks, x_vars>>

\* the call has ended; a successful encrypt is remembered
Finish ==
    /\ frame.pc = "done"
    /\ frame' = IdleFrame
    /\ prev' = IF frame.op = "encrypt" /\ frame.result.kind = "Ok"
               THEN [set |-> TRUE, text |-> frame.text, nonce |-> frame.nonce,
                     aead |-> frame.aead, counter |-> frame.counter,
                     out |-> frame.result.val]
               ELSE prev
    /\ UNCHANGED <<obj, overflow_checks, x_vars>>

Next ==
    \/ New \/ CallEncrypt \/ CallDecrypt \/ Finish
    \/ XKey \/ XEncryptRet \/ XDecryptRet
    \/ EncOtk \/ EncPolyNew \/ EncChaCha \/ EncUpdateAead \/ EncUpdateCt
    \/ EncUpdateAeadLen \/ EncUpdateCtLen \/ EncRet
    \/ DecCheckLen \/ DecSplit \/ DecOtk \/ DecPolyNew \/ DecChaCha
    \/ DecUpdateAead \/ DecUpdateCt \/ DecUpdateAeadLen \/ DecUpdateCtLen \/ DecVerify

Spec == Init /\ [][Next]_vars

\* ------------------------------------------------------ X25519 actions
\* A session of two parties: each constructs its PrivateKey, party 1 and
\* then party 2 computes its public key, party 1 and then party 2
\* exchanges with the other's public key, and the keys are dropped.
\* scalarmult is public, so it is also called directly on a slice.

\* the private keys of RFC 7748 section 6.1 and the scalar of its section 5.2
Alice ==
    <<119, 7, 109, 10, 115, 24, 165, 125, 60, 22, 193, 114, 81, 178, 102, 69,
      223, 76, 47, 135, 235, 192, 153, 42, 177, 119, 251, 165, 29, 185, 44, 42>>
Bob ==
    <<93, 171, 8, 126, 98, 74, 138, 75, 121, 225, 127, 139, 131, 128, 14, 230,
      111, 59, 177, 41, 38, 24, 182, 253, 28, 47, 139, 39, 255, 136, 224, 235>>
Third ==
    <<165, 70, 227, 107, 240, 82, 124, 157, 59, 22, 21, 75, 130, 70, 94, 221,
      98, 20, 76, 10, 193, 252, 90, 24, 80, 106, 34, 68, 186, 68, 154, 196>>
Fourth == [i \in 1..32 |-> 255]

Scalars == <<Alice, Bob, Third, Fourth>>

NumScalars == 2

\* the slices handed to PrivateKey::new: 32-byte scalars and a 31-byte one
KeySlices == {Scalars[i] : i \in 1..NumScalars} \cup {SubSeq(Alice, 1, 31)}

\* the index in Scalars of a live key
ScalarIndex(key) == CHOOSE i \in 1..NumScalars : Scalars[i] = key

InitX ==
    /\ obj = NoObj
    /\ frame = IdleFrame
    /\ prev = NoPrev
    /\ overflow_checks = TRUE
    /\ privs = NoPrivs
    /\ sm = IdleSm
    /\ outs = NoOuts

\* PrivateKey::new; party 2 takes a scalar further on in Scalars than party 1
NewKey ==
    \E i \in Parties, key \in KeySlices :
        /\ sm.pc = "idle"
        /\ privs[i].state \in {"none", "rejected"}
        /\ i = 2 => privs[1].state = "live"
        /\ (i = 2 /\ Len(key) = 32) => ScalarIndex(key) > ScalarIndex(privs[1].key)
        /\ privs' = [privs EXCEPT ![i] = PrivateKey_new(key)]
        /\ UNCHANGED <<aead_vars, sm, outs>>

\* PrivateKey::public_key, through scalarmult_base
CallPublicKey ==
    \E i \in Parties :
        /\ sm.pc = "idle"
        /\ \A j \in Parties : privs[j].state = "live"
        /\ outs.pub[i] = <<>>
        /\ i = 2 => outs.pub[1] # <<>>
        /\ sm' = ScalarmultFrame("public_key", i, privs[i].key, BASE)
        /\ UNCHANGED <<aead_vars, privs, outs>>

\* PrivateKey::exchange with the other party's public key
CallExchange ==
    \E i \in Parties :
        /\ sm.pc = "idle"
        /\ privs[i].state = "live"
        /\ \A j \in Parties : outs.pub[j] # <<>>
        /\ outs.shared[i] = <<>>
        /\ i = 2 => outs.shared[1] # <<>>
        /\ sm' = ScalarmultFrame("exchange", i, privs[i].key, outs.pub[Other(i)])
        /\ UNCHANGED <<aead_vars, privs, outs>>

\* scalarmult called directly on a slice shorter than 32 bytes
CallScalarmult ==
    \E n \in {SubSeq(Scalars[i], 1, 31) : i \in 1..NumScalars} :
        /\ sm.pc = "idle"
        /\ privs = NoPrivs
        /\ sm' = ScalarmultFrame("scalarmult", 0, n, BASE)
        /\ UNCHANGED <<aead_vars, privs, outs>>

SmLetT ==
    /\ sm.pc = "s11"
    /\ sm' = sm_let_t(sm)
    /\ UNCHANGED <<aead_vars, privs, outs>>

SmCopy ==
    /\ sm.pc = "s13"
    /\ sm' = sm_copy(sm)
    /\ UNCHANGED <<aead_vars, privs, outs>>

SmClamp ==
    /\ sm.pc = "s17"
    /\ sm' = sm_clamp(sm)
    /\ UNCHANGED <<aead_vars, privs, outs>>

SmInit ==
    /\ sm.pc = "s21"
    /\ sm' = sm_init(sm)
    /\ UNCHANGED <<aead_vars, privs, outs>>

SmLadder ==
    /\ sm.pc = "s28"
    /\ sm' = sm_ladder(sm)
    /\ UNCHANGED <<aead_vars, privs, outs>>

SmFinalSwap ==
    /\ sm.pc = "s55"
    /\ sm' = sm_final_swap(sm)
    /\ UNCHANGED <<aead_vars, privs, outs>>

SmOutput ==
    /\ sm.pc = "s58"
    /\ sm' = sm_output(sm)
    /\ UNCHANGED <<aead_vars, privs, outs>>

SmZeroize ==
    /\ sm.pc = "s60"
    /\ sm' = sm_zeroize(sm)
    /\ UNCHANGED <<aead_vars, privs, outs>>

SmReturn ==
    /\ sm.pc = "s62"
    /\ sm' = sm_return(sm)
    /\ UNCHANGED <<aead_vars, privs, outs>>

\* the caller takes what scalarmult returned
SmFinish ==
    /\ sm.pc = "done"
    /\ sm.result.kind = "Ok"
    /\ sm' = IdleSm
    /\ outs' = IF sm.caller = "public_key"
               THEN [outs EXCEPT !.pub[sm.party] = sm.result.val]
               ELSE IF sm.caller = "exchange"
               THEN [outs EXCEPT !.shared[sm.party] = sm.result.val]
               ELSE outs
    /\ UNCHANGED <<aead_vars, privs>>

\* a PrivateKey goes out of scope once the session's exchanges are done
DropKey ==
    \E i \in Parties :
        /\ sm.pc = "idle"
        /\ privs[i].state = "live"
        /\ \A j \in Parties : outs.shared[j] # <<>>
        /\ privs' = [privs EXCEPT ![i] = PrivateKey_drop(@)]
        /\ UNCHANGED <<aead_vars, sm, outs>>

NextX ==
    \/ NewKey \/ CallPublicKey \/ CallExchange \/ CallScalarmult
    \/ SmLetT \/ SmCopy \/ SmClamp \/ SmInit \/ SmLadder \/ SmFinalSwap
    \/ SmOutput \/ SmZeroize \/ SmReturn \/ SmFinish \/ DropKey

SpecX == InitX /\ [][NextX]_vars

\* -------------------------------------------------------------- claims

\* a finished decrypt of the untouched output of the last encrypt, under
\* the nonce, associated data and counter of that encrypt
DecryptOfLast ==
    /\ frame.pc = "done" /\ frame.op = "decrypt" /\ prev.set
    /\ frame.text = prev.out /\ frame.nonce = prev.nonce
    /\ frame.aead = prev.aead /\ frame.counter = prev.counter

\* C1 (as claimed): decrypt(encrypt(p, n, a, c), n, a, c) succeeds and
\* returns exactly p, for every plaintext p, the empty one included, under
\* a 32-byte key and for both composers.
C1_RoundTrip ==
    (DecryptOfLast /\ Len(frame.key) = 32) => frame.result = Ok(prev.text)

\* the positions at which two byte strings of equal length differ
DiffAt(u, v) == {i \in 1..Len(u) : u[i] # v[i]}

\* v is u with exactly one bit flipped
SingleBitFlip(u, v) ==
    /\ Len(u) = Len(v)
    /\ Cardinality(DiffAt(u, v)) = 1
    /\ \A i \in DiffAt(u, v) : Xor8(u[i], v[i]) \in {1, 2, 4, 8, 16, 32, 64, 128}

\* a finished decrypt of the last output with one bit of its ciphertext or
\* tag flipped, or with other associated data
DecryptOfTampered ==
    /\ frame.pc = "done" /\ frame.op = "decrypt" /\ prev.set
    /\ frame.nonce = prev.nonce /\ frame.counter = prev.counter
    /\ \/ SingleBitFlip(prev.out, frame.text) /\ frame.aead = prev.aead
       \/ frame.text = prev.out /\ frame.aead # prev.aead

\* C2 (as claimed): a decrypt of an output with a single bit of its
\* ciphertext or tag flipped, or under different associated data, fails
\* with the authentication error 'Invalid MAC', for every plaintext.
C2_TamperDetected ==
    (DecryptOfTampered /\ Len(frame.key) = 32) => frame.result = Err("Invalid MAC")

\* C3: a finished decrypt whose recomputed tag differs from the supplied
\* one returned the authentication error; a result that is not Ok carries
\* no bytes; an Ok result is the whole plaintext (as long as the ciphertext
\* part) and its tag matched; XChaCha20Poly1305 returns what its inner
\* ChaCha20Poly1305 returned.
C3_AllOrNothing ==
    (frame.pc = "done" /\ frame.op = "decrypt") =>
        /\ (Len(frame.poly1305.updates) = 4 /\ Poly1305_tag(frame.poly1305) # frame.tag)
              => frame.result = Err("Invalid MAC")
        /\ frame.result.kind # "Ok" => frame.result.val = <<>>
        /\ frame.result.kind = "Ok" =>
              /\ Len(frame.result.val) = Len(frame.text) - TagLen
              /\ frame.result.val = frame.plaintext
              /\ Poly1305_tag(frame.poly1305) = frame.tag
        /\ frame.result = frame.inner

C3_Witness ==
    /\ frame.pc = "done" /\ frame.op = "decrypt" /\ frame.kind = XCCP
    /\ Len(frame.poly1305.updates) = 4 /\ Poly1305_tag(frame.poly1305) # frame.tag
    /\ frame.result = Err("Invalid MAC")

\* the statements of ChaCha20Poly1305::decrypt behind its length check
AfterLenCheck == {"d155", "d159", "d162", "d163", "d165", "d166", "d171", "d172", "d174"}

\* C4: ChaCha20Poly1305::decrypt on an input of 16 bytes or fewer computes
\* no keystream block, updates no MAC, never reaches the split of the input
\* and returns the error 'Invalid ciphertext'; the split is reached only
\* with at least 16 bytes of input.
C4_TooShort ==
    /\ (frame.op = "decrypt" /\ Len(frame.text) <= 16) =>
          /\ frame.ks = <<>> /\ ~frame.xored
          /\ frame.poly1305 = NoPoly
          /\ frame.pc \notin AfterLenCheck
          /\ frame.pc \in {"x259", "done"} =>
                \/ frame.inner = Err("Invalid ciphertext")
                \/ frame.kind = XCCP /\ xkey_panics(frame.key, frame.nonce)
    /\ frame.pc = "d155" => Len(frame.text) >= TagLen

C4_Witness ==
    /\ frame.pc = "done" /\ frame.op = "decrypt" /\ Len(frame.text) = 16
    /\ frame.result = Err("Invalid ciphertext")

\* C5 (as claimed): an object is constructed only over a key of exactly 32
\* bytes, so no call runs on a key of another length.
C5_KeyLengthEnforced ==
    /\ obj # NoObj => Len(obj.key) = 32
    /\ frame.pc # "idle" => Len(frame.key) = 32

\* C6: a finished XChaCha20Poly1305 call returned what the same call
\* returns on ChaCha20Poly1305 constructed with hchacha20(key, nonce[0..16])
\* under the nonce 00 00 00 00 || nonce[16..24].
C6_XChaChaDelegates ==
    (frame.pc = "done" /\ frame.kind = XCCP /\ ~xkey_panics(frame.key, frame.nonce)) =>
        frame.result =
            Run(CallFrame([kind |-> CCP, key |-> hchacha20(frame.key, SubSeq(frame.nonce, 1, 16))],
                          frame.op, frame.text,
                          <<0, 0, 0, 0>> \o SubSeq(frame.nonce, 17, 24),
                          frame.aead, frame.counter)).result

C6_Witness ==
    /\ frame.pc = "done" /\ frame.kind = XCCP /\ frame.op = "decrypt"
    /\ frame.result.kind = "Ok" /\ Len(frame.result.val) > 64

\* the 8-byte little-endian encoding of a length below 2^16
Le64(n) == <<n % 256, n \div 256, 0, 0, 0, 0, 0, 0>>

\* the ciphertext a finished call authenticated: what encrypt returned
\* without its tag, or what decrypt was given without its tag
CiphertextPart(f) ==
    IF f.op = "encrypt" THEN SubSeq(f.inner.val, 1, Len(f.inner.val) - 16)
    ELSE SubSeq(f.text, 1, Len(f.text) - 16)

\* the inner ChaCha20Poly1305 call ran up to its tag
RanToTag(f) == f.pc = "done" /\ (f.inner.kind = "Ok" \/ f.inner = Err("Invalid MAC"))

\* C9: in encrypt and in decrypt the MAC is keyed with the first 32 bytes
\* of the keystream block at counter 0 and is updated exactly four times:
\* associated data (padded), ciphertext (padded), then the two 8-byte
\* little-endian lengths (unpadded); decrypt feeds the received ciphertext,
\* so on the ciphertext and associated data of the last encrypt it computes
\* the tag that encrypt appended.
C9_MacInput ==
    RanToTag(frame) =>
        /\ frame.poly1305.key = SubSeq(keystream(frame.subkey, frame.chacha_nonce, W(0, 0)), 1, 32)
        /\ frame.poly1305.updates =
              << <<frame.aead, TRUE>>, <<CiphertextPart(frame), TRUE>>,
                 <<Le64(Len(frame.aead)), FALSE>>, <<Le64(Len(CiphertextPart(frame))), FALSE>> >>
        /\ (/\ frame.op = "decrypt" /\ prev.set /\ frame.aead = prev.aead
            /\ frame.nonce = prev.nonce
            /\ CiphertextPart(frame) = SubSeq(prev.out, 1, Len(prev.out) - 16))
              => Poly1305_tag(frame.poly1305) = SubSeq(prev.out, Len(prev.out) - 15, Len(prev.out))

C9_Witness ==
    /\ RanToTag(frame) /\ frame.op = "decrypt" /\ prev.set
    /\ frame.aead = prev.aead /\ frame.text # prev.out
    /\ CiphertextPart(frame) = SubSeq(prev.out, 1, Len(prev.out) - 16)
    /\ Len(frame.aead) > 0

\* C10 (as claimed): in decrypt the ciphertext is XORed with the message
\* keystream only after the supplied tag has been verified as matching.
C10_XorOnlyAfterVerify ==
    (frame.op = "decrypt" /\ frame.xored) => frame.verified = "match"

\* C10 (amended): decrypt XORs the ciphertext with the message keystream
\* before it verifies the tag, whatever the tag; the XORed bytes are
\* returned only when the tag matched and are dropped when it did not.
C10_ReturnOnlyAfterVerify ==
    frame.op = "decrypt" =>
        /\ frame.verified # "no" => frame.xored
        /\ frame.inner.kind = "Ok" => frame.verified = "match"
        /\ frame.verified = "mismatch" => (frame.inner = Err("Invalid MAC") /\ frame.plaintext # <<>>)

C10_Witness ==
    /\ frame.pc = "done" /\ frame.op = "decrypt"
    /\ frame.xored /\ frame.verified = "mismatch" /\ frame.result = Err("Invalid MAC")

\* C7: shared-secret symmetry: once both parties have exchanged, with the
\* other party's public key each, they hold the same 32 bytes:
\* scalarmult(a, scalarmult_base(b)) = scalarmult(b, scalarmult_base(a)).
C7_SharedSecretSymmetry ==
    (outs.shared[1] # <<>> /\ outs.shared[2] # <<>>) => outs.shared[1] = outs.shared[2]

\* both exchanges of two parties with different scalars have returned
C7_Witness ==
    /\ outs.shared[1] # <<>> /\ outs.shared[2] # <<>>
    /\ privs[1].state = "live" /\ privs[2].state = "live"
    /\ privs[1].key # privs[2].key
    /\ outs.pub[1] # outs.pub[2]
    /\ outs.shared[1] # Zeros(32)

\* C8: zeroization on every exit path: whenever a call of scalarmult has
\* ended, by returning or by panicking, t was zeroized exactly once and
\* holds zeros; a dropped PrivateKey was zeroized exactly once and holds
\* zeros.
C8_ZeroizedOnEveryExit ==
    /\ sm.pc = "done" => (sm.t = Zeros(32) /\ sm.t_zeroized = 1)
    /\ \A i \in Parties :
          privs[i].state = "dropped" => (privs[i].key = Zeros(32) /\ privs[i].zeroized = 1)

\* C11 (as claimed): separate counter spaces: the keystream block at
\* counter 0, which keys the MAC, is never one of the blocks XORed with the
\* message: no message segment of an accepted call uses counter 0.
C11_SeparateCounterSpaces ==
    (frame.xored /\ Len(frame.key) = 32) =>
        /\ frame.ks[1] = Zero32
        /\ \A i \in 2..Len(frame.ks) : frame.ks[i] # Zero32

\* the input and the output of the ChaCha20::encrypt call of a frame
ChaChaInput(f) == IF f.op = "encrypt" THEN f.text ELSE f.ciphertext
ChaChaOutput(f) == IF f.op = "encrypt" THEN f.ciphertext ELSE f.plaintext

\* the frame has gone through its call of ChaCha20::encrypt
PastChaCha(f) == f.pc \in {"e132", "d165"} \/ (f.pc = "done" /\ f.poly1305 # NoPoly /\ f.inner = Panicked)

\* C12 (as claimed): for every base counter and every input,
\* ChaCha20::encrypt XORs segment i of the input with the keystream block
\* at counter base + i, which stays a 32-bit unsigned value; the output is
\* as long as the input, and the operation applied to its output returns
\* the input.
C12_BlockCounterArithmetic ==
    (PastChaCha(frame) /\ Len(frame.key) = 32) =>
        /\ frame.inner # Panicked
        /\ Len(frame.ks) = 1 + NumChunks(ChaChaInput(frame))
        /\ \A i \in 0..(NumChunks(ChaChaInput(frame)) - 1) :
              /\ ~add_overflows(frame.counter, W(0, i))
              /\ frame.ks[i + 2] = BlockCounter(frame.counter, i)
              /\ Chunk(ChaChaOutput(frame), i) =
                    XorZip(Chunk(ChaChaInput(frame), i),
                           keystream(frame.subkey, frame.chacha_nonce, BlockCounter(frame.counter, i)))
        /\ Len(ChaChaOutput(frame)) = Len(ChaChaInput(frame))
        /\ ChaCha20_encrypt(frame.subkey, ChaChaOutput(frame), frame.chacha_nonce,
                            frame.counter, overflow_checks).out = ChaChaInput(frame)

====
